---- MODULE Spec2Model ----
(***************************************************************************)
(* Model of the chat session component App (src/README.md, lines 262-539): *)
(* the React state of one session, the handlers onDrop and                 *)
(* handleSendMessage, the two text fields, the Send button, and the axios  *)
(* requests that are awaiting their response.                              *)
(*                                                                         *)
(* Strings are sequences of one-character strings; a fixed text of the     *)
(* program is a one-element sequence holding that text.                    *)
(***************************************************************************)
EXTENDS Integers, Sequences, FiniteSets

\* ---------------------------------------------------------------- bounds

\* Requests (uploads and chat messages together) issued in one behaviour.
MaxRequests == 3

\* Requests awaiting their response at the same time.
MaxInFlight == 2

\* ------------------------------------------------------------ data model

\* useState<any>(null): no analysis yet.  Analysis records are 1, 2, ...:
\* record n is the one produced by the upload that was issued as request n.
NULL == 0

\* A property that is not set (location: undefined, no imageUrl).
UNDEFINED == <<"undefined">>

Whitespace == {" "}

\* What the user types into a field: nothing, whitespace alone, a text.
Strings == {<<>>, <<" ">>, <<"a">>}

\* What the user types into the message field: also a text to be trimmed.
Inputs == Strings \cup {<<" ", "a">>}

\* The files a drop accepts (maxFiles: 1): none, or one.
Drops == {<<>>, <<"file">>}

\* String.prototype.trim: whitespace removed from both ends.
RECURSIVE TrimStart(_)
TrimStart(s) ==
  IF s # <<>> /\ Head(s) \in Whitespace THEN TrimStart(Tail(s)) ELSE s

RECURSIVE TrimEnd(_)
TrimEnd(s) ==
  IF s # <<>> /\ s[Len(s)] \in Whitespace
  THEN TrimEnd(SubSeq(s, 1, Len(s) - 1))
  ELSE s

Trim(s) == TrimEnd(TrimStart(s))

\* Mutant of IsBlank: only the empty string is refused.
IsBlank_emptyOnly(s) == s = <<>>

\* !input.trim()
IsBlank(s) == Trim(s) = <<>>

\* The transcript's turns.
UserTurn(content, imageUrl) ==
  [type |-> "user", content |-> content, imageUrl |-> imageUrl]

BotTurn(content) ==
  [type |-> "bot", content |-> content, imageUrl |-> UNDEFINED]

UploadedText == <<"Uploaded image for analysis">>

UploadErrorText ==
  <<"Sorry, there was an error processing your image. Please try again.">>

ChatErrorText == <<"Sorry, I encountered an error. Please try again.">>

\* response.data.response and response.data.image_url: text of the backend.
ResponseText == <<"response">>

ImageUrl == <<"image_url">>

\* Mutant of AppendTurns: the new turns replace the transcript.
AppendTurns_replace(prev, turns) == turns

\* setMessages(prev => [...prev, ...turns])
AppendTurns(prev, turns) == prev \o turns

\* Mutant of LocationField: the hint is trimmed before it is attached.
LocationField_trimmed(loc) ==
  IF Trim(loc) = <<>> THEN UNDEFINED ELSE Trim(loc)

\* location: location || undefined
LocationField(loc) == IF loc = <<>> THEN UNDEFINED ELSE loc

\* if (response.data.last_analysis) setLastAnalysis(response.data.last_analysis)
StoreAnalysis(current, received) ==
  IF received # NULL THEN received ELSE current

\* -------------------------------------------------------------- the state

VARIABLES
  messages,      \* useState<Message[]>([])
  input,         \* useState('')
  location,      \* useState('')
  loading,       \* useState(false)
  lastAnalysis,  \* useState<any>(null)
  requests,      \* the axios requests whose handler has not yet continued
  nextId,        \* the number of the next request
  stored         \* history: the newest record an upload response has stored

vars ==
  <<messages, input, location, loading, lastAnalysis, requests, nextId, stored>>

\* The component's state as one value, for the handlers below.
St ==
  [messages |-> messages, input |-> input, location |-> location,
   loading |-> loading, lastAnalysis |-> lastAnalysis, requests |-> requests,
   nextId |-> nextId]

\* The component's state becomes s.
Become(s) ==
  /\ messages' = s.messages
  /\ input' = s.input
  /\ location' = s.location
  /\ loading' = s.loading
  /\ lastAnalysis' = s.lastAnalysis
  /\ requests' = s.requests
  /\ nextId' = s.nextId

\* An upload request: the form data holds the file alone.  prior is history:
\* lastAnalysis when the request was issued.
UploadRequest(id, prior) ==
  [id |-> id, kind |-> "upload", message |-> UNDEFINED,
   location |-> UNDEFINED, last_analysis |-> NULL, prior |-> prior,
   state |-> "pending"]

\* A chat request and its body: message, location, last_analysis.
ChatRequest(id, message, loc, analysis) ==
  [id |-> id, kind |-> "chat", message |-> message,
   location |-> LocationField(loc), last_analysis |-> analysis,
   prior |-> analysis, state |-> "pending"]

\* What a successful upload answers as last_analysis: the record made for
\* this upload, or none.
UploadAnswers(r) == {NULL, r.id}

\* What a successful chat answers as last_analysis: the analysis the request
\* carried, or none.  A chat creates no record.
ChatAnswers(r) == {NULL, r.last_analysis}

Init ==
  /\ messages = <<>>
  /\ input = <<>>
  /\ location = <<>>
  /\ loading = FALSE
  /\ lastAnalysis = NULL
  /\ requests = {}
  /\ nextId = 1
  /\ stored = NULL

\* The model issues no more than MaxRequests requests, no more than
\* MaxInFlight of them at a time.
CanIssue == nextId <= MaxRequests /\ Cardinality(requests) < MaxInFlight

\* ------------------------------------------------------------ the fields

\* onChange of the message field.
SetInput ==
  \E s \in Inputs :
    /\ input' = s
    /\ UNCHANGED <<messages, location, loading, lastAnalysis, requests,
                   nextId, stored>>

\* onChange of the location field.
SetLocation ==
  \E s \in Strings :
    /\ location' = s
    /\ UNCHANGED <<messages, input, loading, lastAnalysis, requests,
                   nextId, stored>>

\* ------------------------------------------------------ handleSendMessage

\* handleSendMessage up to its await: the state it leaves.
HandleSendMessage(s) ==
  IF IsBlank(s.input)
  THEN s
  ELSE [s EXCEPT
          !.input = <<>>,
          !.messages = AppendTurns(@, <<UserTurn(Trim(s.input), UNDEFINED)>>),
          !.loading = TRUE,
          !.requests =
            @ \cup {ChatRequest(s.nextId, Trim(s.input), s.location, s.lastAnalysis)},
          !.nextId = @ + 1]

\* The Send button: disabled={loading || !input.trim()}.
ClickSend ==
  /\ ~(loading \/ IsBlank(input))
  /\ CanIssue
  /\ Become(HandleSendMessage(St))
  /\ UNCHANGED stored

\* Enter without Shift in the message field: no condition on loading.
PressEnter ==
  /\ HandleSendMessage(St).nextId = nextId \/ CanIssue
  /\ Become(HandleSendMessage(St))
  /\ UNCHANGED stored

\* The chat request resolved: the handler continues after its await.
ChatThen ==
  \E r \in requests :
    /\ r.kind = "chat" /\ r.state = "resolved"
    /\ messages' = AppendTurns(messages, <<BotTurn(ResponseText)>>)
    /\ \E d \in ChatAnswers(r) : lastAnalysis' = StoreAnalysis(lastAnalysis, d)
    /\ loading' = FALSE
    /\ requests' = requests \ {r}
    /\ UNCHANGED <<input, location, nextId, stored>>

\* The chat request rejected: catch, then finally.
ChatCatch ==
  \E r \in requests :
    /\ r.kind = "chat" /\ r.state = "rejected"
    /\ messages' = AppendTurns(messages, <<BotTurn(ChatErrorText)>>)
    /\ loading' = FALSE
    /\ requests' = requests \ {r}
    /\ UNCHANGED <<input, location, lastAnalysis, nextId, stored>>

\* ----------------------------------------------------------------- onDrop

\* onDrop up to its await: the state it leaves.  The dropzone is never
\* disabled.
OnDrop(s, acceptedFiles) ==
  IF Len(acceptedFiles) = 0
  THEN s
  ELSE [s EXCEPT
          !.loading = TRUE,
          !.requests = @ \cup {UploadRequest(s.nextId, s.lastAnalysis)},
          !.nextId = @ + 1]

Drop ==
  \E acceptedFiles \in Drops :
    /\ OnDrop(St, acceptedFiles).nextId = nextId \/ CanIssue
    /\ Become(OnDrop(St, acceptedFiles))
    /\ UNCHANGED stored

\* The upload request resolved: the handler continues after its await.
UploadThen ==
  \E r \in requests :
    /\ r.kind = "upload" /\ r.state = "resolved"
    /\ \E d \in UploadAnswers(r) :
         /\ lastAnalysis' = StoreAnalysis(lastAnalysis, d)
         /\ stored' = IF d > stored THEN d ELSE stored
    /\ messages' =
         AppendTurns(messages,
                     <<UserTurn(UploadedText, ImageUrl), BotTurn(ResponseText)>>)
    /\ loading' = FALSE
    /\ requests' = requests \ {r}
    /\ UNCHANGED <<input, location, nextId>>

\* The upload request rejected: catch, then finally.
UploadCatch ==
  \E r \in requests :
    /\ r.kind = "upload" /\ r.state = "rejected"
    /\ messages' = AppendTurns(messages, <<BotTurn(UploadErrorText)>>)
    /\ loading' = FALSE
    /\ requests' = requests \ {r}
    /\ UNCHANGED <<input, location, lastAnalysis, nextId, stored>>

\* ------------------------------------------------------------ the backend

\* axios.post settles: the backend answers a pending request, or the request
\* fails.  The calls configure no timeout, so nothing else settles it.
Resolve ==
  \E r \in requests :
    /\ r.state = "pending"
    /\ requests' = (requests \ {r}) \cup {[r EXCEPT !.state = "resolved"]}
    /\ UNCHANGED <<messages, input, location, loading, lastAnalysis, nextId,
                   stored>>

Reject ==
  \E r \in requests :
    /\ r.state = "pending"
    /\ requests' = (requests \ {r}) \cup {[r EXCEPT !.state = "rejected"]}
    /\ UNCHANGED <<messages, input, location, loading, lastAnalysis, nextId,
                   stored>>

\* ---------------------------------------------------------- specification

Next ==
  \/ SetInput
  \/ SetLocation
  \/ ClickSend
  \/ PressEnter
  \/ ChatThen
  \/ ChatCatch
  \/ Drop
  \/ UploadThen
  \/ UploadCatch
  \/ Resolve
  \/ Reject

Spec == Init /\ [][Next]_vars

\* The event loop runs the continuation of every settled request.  Whether
\* the backend answers is not up to the program: Resolve and Reject are not
\* fair.
FairSpec ==
  /\ Spec
  /\ WF_vars(ChatThen)
  /\ WF_vars(ChatCatch)
  /\ WF_vars(UploadThen)
  /\ WF_vars(UploadCatch)

\* ------------------------------------------------------------ properties

IsPrefix(s, t) == Len(s) <= Len(t) /\ SubSeq(t, 1, Len(s)) = s

OnlyWhitespace(s) == \A i \in 1..Len(s) : s[i] \in Whitespace

\* The requests whose handler continues in this step.
Ended == requests \ requests'

\* The chat requests sent in this step.
Sent == {r \in requests' : r.id = nextId /\ r.kind = "chat"}

InFlight(i) == \E r \in requests : r.id = i

\* C1: once an upload response has stored record R, every chat request sent
\* later carries R or the record of a later upload, never an older one.
C1_ReadsNeverOlder ==
  [][\A r \in Sent : r.last_analysis >= stored]_vars

\* C2: when a request fails, its handler appends exactly one bot reply,
\* lastAnalysis is what it was when the request was issued, and nothing is
\* left disabled.
C2_FailureLeavesState ==
  [][\A r \in Ended :
       r.state = "rejected" =>
         /\ Len(messages') = Len(messages) + 1
         /\ messages'[Len(messages')].type = "bot"
         /\ lastAnalysis' = r.prior
         /\ loading' = FALSE]_vars

\* C3: every request that is issued ends (its handler appends the reply and
\* clears the loading flag as it ends), whether or not the backend answers.
C3_EveryRequestEnds ==
  \A i \in 1..MaxRequests : InFlight(i) ~> ~InFlight(i)

\* C4: submitting an empty or whitespace-only message appends a bot reply to
\* the transcript.
C4_BlankSubmitGetsReply ==
  OnlyWhitespace(input) =>
    LET after == HandleSendMessage(St).messages
    IN  /\ Len(after) = Len(messages) + 1
        /\ after[Len(after)].type = "bot"

\* C5: handleSendMessage with an empty or whitespace-only input, and onDrop
\* with no accepted file, leave lastAnalysis, the transcript, the loading
\* flag and the location as they are and issue no request.
C5_MalformedInputMutatesNothing ==
  LET Same(s) ==
        /\ s.lastAnalysis = lastAnalysis
        /\ s.messages = messages
        /\ s.loading = loading
        /\ s.location = location
        /\ s.requests = requests
        /\ s.nextId = nextId
  IN  /\ OnlyWhitespace(input) => Same(HandleSendMessage(St))
      /\ Same(OnDrop(St, <<>>))

\* Witness of C5: a whitespace-only input while a request is awaited and an
\* analysis is stored.
C5_Witness ==
  /\ input = <<" ">>
  /\ loading
  /\ lastAnalysis # NULL
  /\ messages # <<>>
  /\ requests # {}

\* C6: lastAnalysis changes only as the handler of a successful upload
\* continues, never in a step of a chat exchange.
C6_OnlyUploadSupersedes ==
  [][lastAnalysis' # lastAnalysis =>
       \E r \in Ended : r.kind = "upload" /\ r.state = "resolved"]_vars

C8_LocationVerbatim ==
  [][/\ \A r \in Sent :
          IF location = <<>>
          THEN r.location = UNDEFINED
          ELSE r.location = location
     /\ \A r \in requests : \A q \in requests' :
          q.id = r.id => q.location = r.location /\ q.message = r.message]_vars

\* Witness of C8: a request in flight carrying a whitespace-only location,
\* another carrying none, and the field changed since.
C8_Witness ==
  /\ \E r \in requests : r.kind = "chat" /\ r.location = <<" ">>
  /\ \E r \in requests : r.kind = "chat" /\ r.location = UNDEFINED
  /\ location = <<"a">>

\* C9: at most one request is in flight at any time.
C9_AtMostOneInFlight == Cardinality(requests) <= 1

\* C10: the loading flag is true exactly when a request is in flight.
C10_LoadingIffInFlight == loading <=> requests # {}

====
